---------------------------- MODULE Spec2Model ----------------------------
(***************************************************************************)
(* Model of modules/regedit.py: an Ansible module that reads a Windows     *)
(* registry export into an ordered two-level dictionary, applies one       *)
(* check / get / add / delete / update operation and, when the operation   *)
(* reports a change, writes the dictionary back to disk.                   *)
(*                                                                         *)
(* A Python str is a sequence of one-character strings.  A Python dict is  *)
(* a sequence of <<key, value>> pairs in insertion order.  File contents   *)
(* are str values that contain the newline character NL.                   *)
(***************************************************************************)
EXTENDS Naturals, Sequences, FiniteSets, TLC

VARIABLES
    disk,         \* what the paths "fin" and "fout" hold: a text or Missing
    disk0,        \* what they held when the run started (history)
    IGNORE_CASE,  \* the module-level switch read by the lookups
    params,       \* module.params of the invocation
    fnc,          \* the name of the function main resolved the request to
    parsed,       \* the registry as read_registry returned it (history)
    reg,          \* main's reg: the registry the operation works on
    reg_ci,       \* main's reg_ci: the lower-cased registry built by the parse
    preamble,     \* main's preamble
    res,          \* main's res: the result code of the last function called
    result,       \* main's result dictionary, plus the value a get returns
    wrote,        \* the paths write_registry opened for writing (history)
    exc,          \* the exception that ended the run, "none" otherwise
    pc            \* "start", then "read" (codec runs), "exit", "fail", "crash"

vars == <<disk, disk0, IGNORE_CASE, params, fnc, parsed, reg, reg_ci, preamble, res,
          result, wrote, exc, pc>>

----------------------------------------------------------------------------
(* Characters and str methods                                              *)

NL == "\n"
BS == "\\"
DQ == "\""

\* Markers for values that are no str: Python's None, a local name that was
\* never assigned, a path that is no file.
NoneKey == <<"None">>
Unbound == <<"Unbound">>
Missing == <<"Missing">>

UpperCase == <<"A","B","C","D","E","F","G","H","I","J","K","L","M",
               "N","O","P","Q","R","S","T","U","V","W","X","Y","Z">>
LowerCase == <<"a","b","c","d","e","f","g","h","i","j","k","l","m",
               "n","o","p","q","r","s","t","u","v","w","x","y","z">>

LowerChar(c) ==
    IF \E i \in 1..26 : UpperCase[i] = c
    THEN LowerCase[CHOOSE i \in 1..26 : UpperCase[i] = c]
    ELSE c

\* str.lower()
lower(s) == [i \in 1..Len(s) |-> LowerChar(s[i])]

IsSpace(c) == c \in {" ", "\t", NL, "\r"}

Max(S) == CHOOSE x \in S : \A y \in S : y <= x
Min(S) == CHOOSE x \in S : \A y \in S : x <= y

\* str.rstrip()
rstrip(s) ==
    LET keep == {i \in 1..Len(s) : ~IsSpace(s[i])}
    IN  IF keep = {} THEN <<>> ELSE SubSeq(s, 1, Max(keep))

\* str.strip()
strip(s) ==
    LET keep == {i \in 1..Len(s) : ~IsSpace(s[i])}
    IN  IF keep = {} THEN <<>> ELSE SubSeq(s, Min(keep), Max(keep))

\* str.startswith / str.endswith
startswith(s, p) == Len(s) >= Len(p) /\ SubSeq(s, 1, Len(p)) = p
endswith(s, p) == Len(s) >= Len(p) /\ SubSeq(s, Len(s) - Len(p) + 1, Len(s)) = p

\* line.split('=')[1]: the text between the first and the second equals sign
\* (the caller tests startswith('@=') first, so there is a first one).
SplitEq1(s) ==
    LET eqs   == {i \in 1..Len(s) : s[i] = "="}
        first == Min(eqs)
        rest  == {i \in eqs : i > first}
        stop  == IF rest = {} THEN Len(s) + 1 ELSE Min(rest)
    IN  SubSeq(s, first + 1, stop - 1)

\* fh.readlines(): the lines of a text, each with its terminating newline
RECURSIVE readlines(_)
readlines(text) ==
    IF text = <<>> THEN <<>>
    ELSE LET nls == {i \in 1..Len(text) : text[i] = NL}
             cut == IF nls = {} THEN Len(text) ELSE Min(nls)
         IN  <<SubSeq(text, 1, cut)>> \o readlines(SubSeq(text, cut + 1, Len(text)))

\* '\n'.join(v)
RECURSIVE JoinNL(_)
JoinNL(v) ==
    IF Len(v) = 0 THEN <<>>
    ELSE IF Len(v) = 1 THEN v[1]
    ELSE v[1] \o <<NL>> \o JoinNL(Tail(v))

----------------------------------------------------------------------------
(* dict operations (insertion-ordered)                                     *)

DictKeys(d) == [i \in 1..Len(d) |-> d[i][1]]
DictHas(d, k) == \E i \in 1..Len(d) : d[i][1] = k
DictIdx(d, k) == CHOOSE i \in 1..Len(d) : d[i][1] = k
\* d[k] for a key that is present
DictGet(d, k) == d[DictIdx(d, k)][2]
\* d[k] = v: an existing key keeps its position, a new key is appended
DictPut(d, k, v) ==
    IF DictHas(d, k) THEN [d EXCEPT ![DictIdx(d, k)] = <<k, v>>]
    ELSE Append(d, <<k, v>>)
\* del d[k] / d.pop(k) for a key that is present
DictDel(d, k) == SelectSeq(d, LAMBDA e : e[1] # k)
\* registry[hkey][key] = val for an hkey that is present
DictPut2(d, h, k, v) == DictPut(d, h, DictPut(DictGet(d, h), k, v))

----------------------------------------------------------------------------
(* The three key/value patterns of read_registry, applied with re.search.  *)
(* Each is: a quote, an optional greedy group KEY of one or more           *)
(* characters, a quote, an equals sign, and then                           *)
(*   pkv_m   a greedy group VAL of any characters, a backslash             *)
(*   pkv_q   a quote, a greedy group VAL of any characters, a quote        *)
(*   pkv_b   a greedy group VAL of any characters                          *)
(* A match starts at the leftmost possible quote; the greedy KEY group     *)
(* ends at the last quote-equals after which the rest of the pattern can   *)
(* still match, and the group is skipped (None) only when the opening      *)
(* quote is directly followed by quote-equals.  VAL is greedy as well.     *)

NoMatch == [ok |-> FALSE, KEY |-> <<>>, VAL |-> <<>>]

\* positions j where the text holds a quote followed by an equals sign
QuoteEq(line) == {j \in 1..(Len(line) - 1) : line[j] = DQ /\ line[j + 1] = "="}

\* positions where the part of the pattern after quote-equals can end, given
\* that the quote of quote-equals is at position j
TailEnds(kind, line, j) ==
    CASE kind = "m" -> {e \in (j + 2)..Len(line) : line[e] = BS}
      [] kind = "q" -> IF j + 2 <= Len(line) /\ line[j + 2] = DQ
                       THEN {e \in (j + 3)..Len(line) : line[e] = DQ}
                       ELSE {}
      [] kind = "b" -> {Len(line)}

\* the quote-equals positions that can close KEY when the match starts at s
KeyEnds(kind, line, s) ==
    {j \in QuoteEq(line) : j >= s + 1 /\ TailEnds(kind, line, j) # {}}

Search(kind, line) ==
    LET starts == {s \in 1..Len(line) : line[s] = DQ /\ KeyEnds(kind, line, s) # {}}
    IN  IF starts = {} THEN NoMatch
        ELSE LET s == Min(starts)
                 j == Max(KeyEnds(kind, line, s))
                 e == Max(TailEnds(kind, line, j))
             IN  [ok  |-> TRUE,
                  KEY |-> IF j = s + 1 THEN NoneKey ELSE SubSeq(line, s + 1, j - 1),
                  VAL |-> CASE kind = "m" -> SubSeq(line, j + 2, e - 1)
                            [] kind = "q" -> SubSeq(line, j + 3, e - 1)
                            [] kind = "b" -> SubSeq(line, j + 2, Len(line))]

pkv_m(line) == Search("m", line)
pkv_q(line) == Search("q", line)
pkv_b(line) == Search("b", line)

----------------------------------------------------------------------------
(* read_registry                                                           *)

\* the inner loop of the continued-value branch: the following physical
\* lines, right-stripped, up to and including the first one that does not
\* end with a backslash
RECURSIVE Continuation(_, _)
Continuation(lines, k) ==
    IF k > Len(lines) THEN <<>>
    ELSE LET l == rstrip(lines[k])
         IN  IF endswith(l, <<BS>>) THEN <<l>> \o Continuation(lines, k + 1)
             ELSE <<l>>

\* registry[hkey][key] = val; registry_ci[hkey.lower()][key.lower()] = val
\* The first statement raises UnboundLocalError when no HKEY line was seen
\* yet, the second AttributeError when the KEY group did not take part in
\* the match (key is None).
StoreKV(st, key, val) ==
    IF st.hkey = Unbound THEN [st EXCEPT !.exc = "UnboundLocalError"]
    ELSE IF key = NoneKey
    THEN [st EXCEPT !.registry = DictPut2(st.registry, st.hkey, key, val),
                    !.exc = "AttributeError"]
    ELSE [st EXCEPT !.registry = DictPut2(st.registry, st.hkey, key, val),
                    !.registry_ci = DictPut2(st.registry_ci, lower(st.hkey),
                                             lower(key), val)]

\* one iteration of "for i, line in enumerate(lines)"
ReadLine(lines, i, st) ==
    LET line  == rstrip(lines[i])
        mkv_m == pkv_m(line)
        mkv_q == pkv_q(line)
        mkv_b == pkv_b(line)
    IN  IF startswith(line, <<"[">>) /\ endswith(line, <<"]">>)
        THEN [st EXCEPT !.hkey = line,
                        !.registry = DictPut(st.registry, line, <<>>),
                        !.registry_ci = DictPut(st.registry_ci, lower(line), <<>>)]
        ELSE IF mkv_m.ok
        THEN StoreKV(st, mkv_m.KEY,
                     JoinNL(<<mkv_m.VAL \o <<BS>>>> \o Continuation(lines, i + 1)))
        ELSE IF mkv_q.ok
        THEN StoreKV(st, mkv_q.KEY, <<DQ>> \o mkv_q.VAL \o <<DQ>>)
        ELSE IF mkv_b.ok
        THEN StoreKV(st, mkv_b.KEY, mkv_b.VAL)
        ELSE IF startswith(line, <<"@", "=">>)
        THEN StoreKV(st, <<"@">>, SplitEq1(line))
        ELSE st

RECURSIVE ReadLoop(_, _, _)
ReadLoop(lines, i, st) ==
    IF i > Len(lines) \/ st.exc # "none" THEN st
    ELSE ReadLoop(lines, i + 1, ReadLine(lines, i, st))

\* the second loop: the stripped lines before the first one that starts
\* with a bracket, concatenated
RECURSIVE Preamble(_, _)
Preamble(lines, i) ==
    IF i > Len(lines) THEN <<>>
    ELSE LET line == strip(lines[i])
         IN  IF startswith(line, <<"[">>) THEN <<>>
             ELSE line \o Preamble(lines, i + 1)

\* read_registry(fn_reg), given what the path holds: a text or Missing.
\* exc names the exception that leaves the function, "none" if it returns.
read_registry(content) ==
    IF content = Missing
    THEN [registry |-> <<>>, registry_ci |-> <<>>, preamble |-> <<>>,
          res |-> "read_registry_filenotfound", exc |-> "none"]
    ELSE LET lines == readlines(content)
             st    == ReadLoop(lines, 1, [registry |-> <<>>, registry_ci |-> <<>>,
                                          hkey |-> Unbound, exc |-> "none"])
         IN  [registry    |-> st.registry,
              registry_ci |-> st.registry_ci,
              preamble    |-> IF st.exc = "none" THEN Preamble(lines, 1) ELSE <<>>,
              res         |-> IF st.exc = "none" THEN "read_registry_success" ELSE "",
              exc         |-> st.exc]

----------------------------------------------------------------------------
(* write_registry                                                          *)

\* the text written for one key of a block
WriteKey(key, val) ==
    IF key # NoneKey
    THEN (IF key = <<"@">> THEN <<"@">> ELSE <<DQ>> \o key \o <<DQ>>)
         \o <<"=">> \o val \o <<NL>>
    ELSE <<NL>>

RECURSIVE WriteKeys(_, _)
WriteKeys(keyset, i) ==
    IF i > Len(keyset) THEN <<>>
    ELSE WriteKey(keyset[i][1], keyset[i][2]) \o WriteKeys(keyset, i + 1)

RECURSIVE WriteBlocks(_, _)
WriteBlocks(registry, i) ==
    IF i > Len(registry) THEN <<>>
    ELSE registry[i][1] \o <<NL>> \o WriteKeys(registry[i][2], 1) \o <<NL>>
         \o WriteBlocks(registry, i + 1)

\* the text write_registry(fn_reg, pre, registry) leaves in fn_reg
\* when every write succeeds (os.linesep is the newline on POSIX)
write_registry(pre, registry) ==
    pre \o <<NL>> \o <<NL>> \o WriteBlocks(registry, 1)

----------------------------------------------------------------------------
(* Lookup helper and the operations on the registry.  Each operation       *)
(* returns the registry, its result code and the exception that left it    *)
(* ("none" when it returned).                                              *)

\* _in(needle, haystack), haystack being the list of a dict's keys
_in(needle, haystack) ==
    IF IGNORE_CASE
    THEN \E i \in 1..Len(haystack) : lower(haystack[i]) = lower(needle)
    ELSE \E i \in 1..Len(haystack) : haystack[i] = needle

Ret(registry, code) == [registry |-> registry, res |-> code, exc |-> "none"]
Raise(registry, e) == [registry |-> registry, res |-> "", exc |-> e]

add_hkey(registry, hkey) ==
    IF ~_in(hkey, DictKeys(registry))
    THEN Ret(DictPut(registry, hkey, <<>>), "hkey_added")
    ELSE Ret(registry, "hkey_already_exists")

add_hkey_kv(registry, hkey, key, val) ==
    LET r1 == IF ~_in(hkey, DictKeys(registry))
              THEN DictPut(registry, hkey, <<>>) ELSE registry
    IN  IF DictHas(r1, hkey) /\ DictHas(DictGet(r1, hkey), key)
        THEN Ret(r1, "hkey_kv_already_exists")
        \* the handler of the KeyError: registry[hkey][key] = val
        ELSE IF DictHas(r1, hkey)
        THEN Ret(DictPut2(r1, hkey, key, val), "hkey_kv_added")
        ELSE Raise(r1, "KeyError")

del_hkey(registry, hkey) ==
    IF _in(hkey, DictKeys(registry))
    THEN IF DictHas(registry, hkey)
         THEN Ret(DictDel(registry, hkey), "hkey_removed")
         ELSE Raise(registry, "KeyError")
    ELSE Ret(registry, "hkey_notremoved")

del_hkey_k(registry, hkey, key) ==
    IF _in(hkey, DictKeys(registry))
    THEN IF ~DictHas(registry, hkey) THEN Raise(registry, "KeyError")
         ELSE IF _in(key, DictKeys(DictGet(registry, hkey)))
         THEN IF DictHas(DictGet(registry, hkey), key)
              THEN Ret(DictPut(registry, hkey, DictDel(DictGet(registry, hkey), key)),
                       "hkey_k_removed")
              ELSE Raise(registry, "KeyError")
         ELSE Ret(registry, "hkey_k_keynotfound")
    ELSE Ret(registry, "hkey_k_hkeynotfound")

\* a del_hkey_kv that reports the removal and leaves the key in place
del_hkey_kv_keeps_key(registry, hkey, key, val) ==
    IF _in(hkey, DictKeys(registry))
    THEN IF ~DictHas(registry, hkey) THEN Raise(registry, "KeyError")
         ELSE IF _in(key, DictKeys(DictGet(registry, hkey)))
         THEN IF ~DictHas(DictGet(registry, hkey), key) THEN Raise(registry, "KeyError")
              ELSE IF DictGet(DictGet(registry, hkey), key) = val
              THEN Ret(registry, "hkey_kv_removed")
              ELSE Ret(registry, "hkey_kv_value_mismatch")
         ELSE Ret(registry, "hkey_kv_keynotfound")
    ELSE Ret(registry, "hkey_kv_hkeynotfound")

del_hkey_kv(registry, hkey, key, val) ==
    IF _in(hkey, DictKeys(registry))
    THEN IF ~DictHas(registry, hkey) THEN Raise(registry, "KeyError")
         ELSE IF _in(key, DictKeys(DictGet(registry, hkey)))
         THEN IF ~DictHas(DictGet(registry, hkey), key) THEN Raise(registry, "KeyError")
              ELSE IF DictGet(DictGet(registry, hkey), key) = val
              THEN Ret(DictPut(registry, hkey, DictDel(DictGet(registry, hkey), key)),
                       "hkey_kv_removed")
              ELSE Ret(registry, "hkey_kv_value_mismatch")
         ELSE Ret(registry, "hkey_kv_keynotfound")
    ELSE Ret(registry, "hkey_kv_hkeynotfound")

upd_hkey(registry, hkey_old, hkey_new) ==
    IF _in(hkey_old, DictKeys(registry))
    THEN IF hkey_old = hkey_new THEN Ret(registry, "hkey_notupdated")
         \* registry[hkey_new] = registry.pop(hkey_old)
         ELSE IF DictHas(registry, hkey_old)
         THEN Ret(DictPut(DictDel(registry, hkey_old), hkey_new,
                          DictGet(registry, hkey_old)), "hkey_updated")
         ELSE Raise(registry, "KeyError")
    ELSE Ret(registry, "hkey_notfound")

upd_key(registry, hkey, key_old, key_new) ==
    IF _in(hkey, DictKeys(registry))
    THEN IF ~DictHas(registry, hkey) THEN Raise(registry, "KeyError")
         ELSE IF _in(key_old, DictKeys(DictGet(registry, hkey)))
         THEN IF key_old = key_new THEN Ret(registry, "key_notupdated")
              ELSE IF DictHas(DictGet(registry, hkey), key_old)
              THEN Ret(DictPut(registry, hkey,
                               DictPut(DictDel(DictGet(registry, hkey), key_old),
                                       key_new,
                                       DictGet(DictGet(registry, hkey), key_old))),
                       "key_updated")
              ELSE Ret(registry, "key_update_fail")
         \* no branch assigns res: "return registry, res" raises
         ELSE Raise(registry, "UnboundLocalError")
    ELSE Ret(registry, "key_notfound")

upd_val(registry, hkey, key, val_new) ==
    IF _in(hkey, DictKeys(registry))
    THEN IF ~DictHas(registry, hkey) THEN Raise(registry, "KeyError")
         ELSE IF _in(key, DictKeys(DictGet(registry, hkey)))
         THEN IF ~DictHas(DictGet(registry, hkey), key)
              THEN Ret(registry, "val_update_fail")
              ELSE IF DictGet(DictGet(registry, hkey), key) = val_new
              THEN Ret(registry, "val_notupdated")
              ELSE Ret(DictPut2(registry, hkey, key, val_new), "val_updated")
         ELSE Ret(DictPut2(registry, hkey, key, val_new), "val_key_set")
    ELSE Ret(registry, "hkey_notfound")

(* The queries return a result code only. *)

\* a chk_hkey that looks the lower-cased needle up among the HKEYs as the
\* primary registry spells them
chk_hkey_primary(registry, registry_ci, hkey) ==
    IF IGNORE_CASE
    THEN IF DictHas(registry, lower(hkey))
         THEN "hkey_exists_ic" ELSE "hkey_notexists_ic"
    ELSE IF _in(hkey, DictKeys(registry))
         THEN "hkey_exists" ELSE "hkey_notexists"

chk_hkey(registry, registry_ci, hkey) ==
    IF IGNORE_CASE
    THEN IF _in(lower(hkey), DictKeys(registry_ci))
         THEN "hkey_exists_ic" ELSE "hkey_notexists_ic"
    ELSE IF _in(hkey, DictKeys(registry))
         THEN "hkey_exists" ELSE "hkey_notexists"

chk_hkey_k(registry, registry_ci, hkey, key) ==
    LET h == IF IGNORE_CASE THEN lower(hkey) ELSE hkey
        k == IF IGNORE_CASE THEN lower(key) ELSE key
        r == IF IGNORE_CASE THEN registry_ci ELSE registry
    IN  IF _in(h, DictKeys(r))
        THEN IF _in(k, DictKeys(DictGet(r, h)))
             THEN IF IGNORE_CASE THEN "hkey_k_key_exists_ic" ELSE "hkey_k_key_exists"
             ELSE "hkey_k_key_not_exists"
        ELSE "hkey_notexists"

chk_hkey_kv(registry, registry_ci, hkey, key, val) ==
    LET h == IF IGNORE_CASE THEN lower(hkey) ELSE hkey
        k == IF IGNORE_CASE THEN lower(key) ELSE key
        v == IF IGNORE_CASE THEN lower(val) ELSE val
        r == IF IGNORE_CASE THEN registry_ci ELSE registry
    IN  IF _in(h, DictKeys(r))
        THEN IF _in(k, DictKeys(DictGet(r, h)))
             THEN LET stored  == DictGet(DictGet(r, h), k)
                      act_val == IF IGNORE_CASE THEN lower(stored) ELSE stored
                  IN  IF act_val = v
                      THEN IF IGNORE_CASE THEN "hkey_kv_value_confirmed_ic"
                           ELSE "hkey_kv_value_confirmed"
                      ELSE "hkey_kv_value_mismatch"
             ELSE "hkey_kv_key_not_exists"
        ELSE "hkey_notexists"

\* get_hkey_k returns the stored value or a result code; the model returns
\* both, res being "" when the value was found
get_hkey_k(registry, registry_ci, hkey, key) ==
    LET h == IF IGNORE_CASE THEN lower(hkey) ELSE hkey
        k == IF IGNORE_CASE THEN lower(key) ELSE key
        r == IF IGNORE_CASE THEN registry_ci ELSE registry
    IN  IF DictHas(r, h)
        THEN IF DictHas(DictGet(r, h), k)
             THEN [res |-> "", value |-> DictGet(DictGet(r, h), k)]
             ELSE [res |-> "hkey_k_keynotfound", value |-> <<>>]
        ELSE [res |-> "hkey_k_hkeynotfound", value |-> <<>>]

----------------------------------------------------------------------------
(* main: the inputs of the model                                           *)

\* the text of a file whose lines are the given ones, newline-terminated
RECURSIVE Text(_)
Text(lines) ==
    IF lines = <<>> THEN <<>> ELSE Head(lines) \o <<NL>> \o Text(Tail(lines))

\* all sequences over S of length at most n
SeqsUpTo(S, n) == UNION {[1..m -> S] : m \in 0..n}

HX == <<"[", "X", "]">>
Hx == <<"[", "x", "]">>
HY == <<"[", "Y", "]">>
BareX == <<"X">>
KeyK == <<"K">>
Keyk == <<"k">>
KeyJ == <<"J">>
QV == <<DQ, "V", DQ>>
QW == <<DQ, "W", DQ>>
BareV == <<"V">>
Star == <<"*">>
LineKV == <<DQ, "K", DQ, "=", DQ, "V", DQ>>
LineJW == <<DQ, "J", DQ, "=", DQ, "W", DQ>>

\* the longest registry file of the runs of main, in lines
MaxMainLines == 3
MainLines == {HX, HY, LineKV, LineJW}
MainFiles == {Text(f) : f \in SeqsUpTo(MainLines, MaxMainLines)}
\* what the alternate output path holds before the run
OldOut == <<"o", "l", "d", NL>>

Empty == <<>>
NoParams ==
    [verb |-> "", registry_filename_out |-> "", hkey |-> Empty, key |-> Empty,
     val |-> Empty, new_hkey |-> Empty, new_key |-> Empty, new_val |-> Empty,
     ignore_case |-> "no"]

QueryParams ==
    [verb : {"chk"}, registry_filename_out : {""}, hkey : {HX, Hx},
     key : {Empty, KeyK, Keyk}, val : {Empty, QV, QW},
     new_hkey : {Empty}, new_key : {Empty}, new_val : {Empty},
     ignore_case : {"no", "yes"}]
    \cup
    [verb : {"get"}, registry_filename_out : {""}, hkey : {HX, Hx},
     key : {Empty, KeyK, Keyk}, val : {Empty},
     new_hkey : {Empty}, new_key : {Empty}, new_val : {Empty},
     ignore_case : {"no", "yes"}]

AddDelParams ==
    [verb : {"add"}, registry_filename_out : {"", "fout"},
     hkey : {HX, Hx}, key : {Empty, KeyK, Keyk}, val : {Empty, Star, QV, QW},
     new_hkey : {Empty}, new_key : {Empty}, new_val : {Empty},
     ignore_case : {"no", "yes"}]
    \cup
    [verb : {"del"}, registry_filename_out : {"", "fout"},
     hkey : {HX, Hx, BareX}, key : {Empty, KeyK, Keyk},
     val : {Empty, Star, QV, BareV},
     new_hkey : {Empty}, new_key : {Empty}, new_val : {Empty},
     ignore_case : {"no", "yes"}]

\* upd requests: a new_hkey or a new_key alone or together with every other
\* optional field, and all combinations of new_val and val without them
UpdFields ==
    [new_hkey : {HX, HY}, new_key : {Empty}, new_val : {Empty}, val : {Empty}]
    \cup [new_hkey : {HX, HY}, new_key : {KeyJ}, new_val : {QW}, val : {QV}]
    \cup [new_hkey : {Empty}, new_key : {KeyK, KeyJ}, new_val : {Empty}, val : {Empty}]
    \cup [new_hkey : {Empty}, new_key : {KeyK, KeyJ}, new_val : {QW}, val : {QV}]
    \cup [new_hkey : {Empty}, new_key : {Empty}, new_val : {Empty, QW}, val : {Empty, QV}]

UpdParams ==
    {[verb |-> "upd", registry_filename_out |-> o, hkey |-> h, key |-> k,
      val |-> f.val, new_hkey |-> f.new_hkey, new_key |-> f.new_key,
      new_val |-> f.new_val, ignore_case |-> i] :
        o \in {"", "fout"}, h \in {HX, Hx}, k \in {KeyK, Keyk},
        f \in UpdFields, i \in {"no", "yes"}}

Params == QueryParams \cup AddDelParams \cup UpdParams

----------------------------------------------------------------------------
(* main                                                                    *)

res_modind ==
    {"write_registry_success", "hkey_added", "hkey_kv_added", "hkey_removed",
     "hkey_k_removed", "hkey_kv_removed", "hkey_updated", "key_updated",
     "val_updated", "val_key_set"}

\* the result codes main's func_rescode lists for each function
func_rescode(f) ==
    CASE f = "read_registry" -> {"read_registry_success", "read_registry_filenotfound"}
      [] f = "write_registry" -> {"write_registry_success", "write_registry_filenotfound",
                                  "write_registry_file_not_writable"}
      [] f = "add_hkey" -> {"hkey_added", "hkey_already_exists"}
      [] f = "add_hkey_kv" -> {"hkey_kv_added", "hkey_kv_already_exists"}
      [] f = "chk_hkey" -> {"hkey_exists", "hkey_exists_ic", "hkey_notexists",
                            "hkey_notexists_ic"}
      [] f = "chk_hkey_k" -> {"hkey_k_key_exists", "hkey_k_key_exists_ic",
                              "hkey_k_key_not_exists", "hkey_notexists"}
      [] f = "chk_hkey_kv" -> {"hkey_kv_value_confirmed", "hkey_kv_value_confirmed_ic",
                               "hkey_kv_value_mismatch", "hkey_kv_key_not_exists",
                               "hkey_notexists"}
      [] f = "del_hkey" -> {"hkey_removed", "hkey_notremoved"}
      [] f = "del_hkey_k" -> {"hkey_k_removed", "hkey_k_keynotfound",
                              "hkey_k_hkeynotfound"}
      [] f = "del_hkey_kv" -> {"hkey_kv_removed", "hkey_kv_value_mismatch",
                               "hkey_kv_keynotfound", "hkey_kv_hkeynotfound"}
      [] f = "get_hkey_k" -> {"hkey_k_keynotfound", "hkey_k_hkeynotfound"}
      [] f = "upd_hkey" -> {"hkey_updated", "hkey_notupdated", "hkey_notfound"}
      [] f = "upd_key" -> {"key_updated", "key_update_fail", "key_notupdated",
                           "key_notfound"}
      [] f = "upd_val" -> {"val_updated", "val_update_fail", "val_key_set",
                           "val_notupdated", "hkey_notfound"}
      [] OTHER -> {}

NoResult == [changed |-> FALSE, msgcode |-> "", value |-> <<>>]

\* fou: the output path, the input path unless registry_filename_out is set
fou(p) == IF p.registry_filename_out # "" THEN p.registry_filename_out ELSE "fin"

\* The checks before the read: the input must be a file, and for the
\* mutating verbs os.access(fou, W_OK) must hold, which it does not for a
\* path that does not exist.  Files that exist are taken to be readable
\* and writable by the executing user.
Preflight(p) ==
    /\ disk["fin"] # Missing
    /\ p.verb \in {"add", "del", "upd"} => disk[fou(p)] # Missing

ModuleInit ==
    /\ IGNORE_CASE = FALSE
    /\ params = NoParams
    /\ fnc = ""
    /\ parsed = <<>>
    /\ reg = <<>>
    /\ reg_ci = <<>>
    /\ preamble = <<>>
    /\ res = ""
    /\ result = NoResult
    /\ wrote = {}
    /\ exc = "none"
    /\ pc = "start"

Init ==
    /\ disk \in [fin : MainFiles \cup {Missing}, fout : {OldOut}]
                \cup [fin : {Text(<<HX, LineKV>>)}, fout : {Missing}]
    /\ disk0 = disk
    /\ ModuleInit

\* main up to the first fail_json: the parameters are bound, the switch is
\* set and a check before the read fails
FailJson(P) ==
    /\ pc = "start"
    /\ \E p \in P :
         /\ ~Preflight(p)
         /\ params' = p
         /\ IGNORE_CASE' = (p.ignore_case \in {"yes", "y", "YES", "Y"})
    /\ pc' = "fail"
    /\ UNCHANGED <<disk, disk0, fnc, parsed, reg, reg_ci, preamble, res, result, wrote, exc>>

\* main up to the end of the read: the parameters are bound, the switch is
\* set, the checks pass and read_registry returns or raises
ReadRegistry(P) ==
    /\ pc = "start"
    /\ \E rd \in {read_registry(disk["fin"])} :
           \E p \in P :
             /\ Preflight(p)
             /\ params' = p
             /\ IGNORE_CASE' = (p.ignore_case \in {"yes", "y", "YES", "Y"})
             /\ fnc' = "read_registry"
             /\ parsed' = rd.registry
             /\ reg' = rd.registry
             /\ reg_ci' = rd.registry_ci
             /\ preamble' = rd.preamble
             /\ res' = rd.res
             /\ exc' = rd.exc
             /\ pc' = IF rd.exc = "none" THEN "read" ELSE "crash"
    /\ UNCHANGED <<disk, disk0, result, wrote>>

\* the end of a chk or get branch: the result is reported, nothing is written
Report(f, r, value) ==
    /\ fnc' = f
    /\ res' = r
    /\ result' = [changed |-> FALSE, msgcode |-> r, value |-> value]
    /\ pc' = "exit"
    /\ UNCHANGED <<disk, disk0, IGNORE_CASE, params, parsed, reg, reg_ci, preamble,
                   wrote, exc>>

\* the end of the add/del/upd branch for the function f that returned or
\* raised r: the result is reported and, for a result code of res_modind,
\* the registry is written to fou
Finish(f, r) ==
    /\ fnc' = f
    /\ reg' = r.registry
    /\ exc' = r.exc
    /\ IF r.exc # "none"
       THEN /\ pc' = "crash"
            /\ UNCHANGED <<disk, res, result, wrote>>
       ELSE /\ pc' = "exit"
            /\ res' = r.res
            /\ result' = [changed |-> r.res \in res_modind, msgcode |-> r.res,
                          value |-> <<>>]
            /\ IF r.res \in res_modind
               THEN /\ disk' = [disk EXCEPT ![fou(params)] =
                                    write_registry(preamble, r.registry)]
                    /\ wrote' = wrote \cup {fou(params)}
               ELSE UNCHANGED <<disk, wrote>>
    /\ UNCHANGED <<disk0, IGNORE_CASE, params, parsed, reg_ci, preamble>>

\* eval(fnc) raises, or what it returns cannot be used
Crash(f, e) ==
    /\ fnc' = f
    /\ exc' = e
    /\ pc' = "crash"
    /\ UNCHANGED <<disk, disk0, IGNORE_CASE, params, parsed, reg, reg_ci, preamble,
                   res, result, wrote>>

ChkHkey ==
    /\ pc = "read" /\ params.verb = "chk"
    /\ params.key = Empty /\ params.val = Empty
    /\ Report("chk_hkey", chk_hkey(reg, reg_ci, params.hkey), <<>>)

ChkHkeyK ==
    /\ pc = "read" /\ params.verb = "chk"
    /\ ~(params.key = Empty /\ params.val = Empty) /\ params.val = Empty
    /\ Report("chk_hkey_k", chk_hkey_k(reg, reg_ci, params.hkey, params.key), <<>>)

ChkHkeyKv ==
    /\ pc = "read" /\ params.verb = "chk"
    /\ params.val # Empty
    /\ Report("chk_hkey_kv",
              chk_hkey_kv(reg, reg_ci, params.hkey, params.key, params.val), <<>>)

GetHkeyK ==
    /\ pc = "read" /\ params.verb = "get"
    /\ params.key # Empty
    /\ LET r == get_hkey_k(reg, reg_ci, params.hkey, params.key)
       IN  Report("get_hkey_k", r.res, r.value)

\* get without a key: fnc is still read_registry, whose returned tuple is
\* no key of a dictionary (it holds dictionaries)
GetUnresolved ==
    /\ pc = "read" /\ params.verb = "get"
    /\ params.key = Empty
    /\ Crash("read_registry", "TypeError")

AddHkey ==
    /\ pc = "read" /\ params.verb = "add"
    /\ params.key = Empty /\ params.val = Empty
    /\ Finish("add_hkey", add_hkey(reg, params.hkey))

\* add with a key and no value (or the value *): main resolves the request
\* to add_hkey_k, a name the module does not define
AddHkeyK ==
    /\ pc = "read" /\ params.verb = "add"
    /\ params.key # Empty /\ params.val \in {Empty, Star}
    /\ Crash("add_hkey_k", "NameError")

AddHkeyKv ==
    /\ pc = "read" /\ params.verb = "add"
    /\ ~(params.key = Empty /\ params.val = Empty)
    /\ ~(params.key # Empty /\ params.val \in {Empty, Star})
    /\ Finish("add_hkey_kv", add_hkey_kv(reg, params.hkey, params.key, params.val))

DelHkey ==
    /\ pc = "read" /\ params.verb = "del"
    /\ params.key = Empty /\ params.val = Empty
    /\ Finish("del_hkey", del_hkey(reg, params.hkey))

DelHkeyK ==
    /\ pc = "read" /\ params.verb = "del"
    /\ params.key # Empty /\ params.val \in {Empty, Star}
    /\ Finish("del_hkey_k", del_hkey_k(reg, params.hkey, params.key))

DelHkeyKv ==
    /\ pc = "read" /\ params.verb = "del"
    /\ ~(params.key = Empty /\ params.val = Empty)
    /\ ~(params.key # Empty /\ params.val \in {Empty, Star})
    /\ Finish("del_hkey_kv", del_hkey_kv(reg, params.hkey, params.key, params.val))

UpdHkey ==
    /\ pc = "read" /\ params.verb = "upd"
    /\ params.new_hkey # Empty
    /\ Finish("upd_hkey", upd_hkey(reg, params.hkey, params.new_hkey))

UpdKey ==
    /\ pc = "read" /\ params.verb = "upd"
    /\ params.new_hkey = Empty /\ params.new_key # Empty
    /\ Finish("upd_key", upd_key(reg, params.hkey, params.key, params.new_key))

UpdVal ==
    /\ pc = "read" /\ params.verb = "upd"
    /\ params.new_hkey = Empty /\ params.new_key = Empty
    /\ params.new_val # Empty \/ params.val # Empty
    /\ Finish("upd_val",
              upd_val(reg, params.hkey, params.key,
                      IF params.new_val # Empty THEN params.new_val ELSE params.val))

\* upd with no new_hkey, new_key, new_val or val: fnc is still
\* read_registry, whose four results do not unpack into reg, res
UpdUnresolved ==
    /\ pc = "read" /\ params.verb = "upd"
    /\ params.new_hkey = Empty /\ params.new_key = Empty
    /\ params.new_val = Empty /\ params.val = Empty
    /\ Crash("read_registry", "ValueError")

Next ==
    \/ FailJson(Params)
    \/ ReadRegistry(Params)
    \/ ChkHkey
    \/ ChkHkeyK
    \/ ChkHkeyKv
    \/ GetHkeyK
    \/ GetUnresolved
    \/ AddHkey
    \/ AddHkeyK
    \/ AddHkeyKv
    \/ DelHkey
    \/ DelHkeyK
    \/ DelHkeyKv
    \/ UpdHkey
    \/ UpdKey
    \/ UpdVal
    \/ UpdUnresolved

Spec == Init /\ [][Next]_vars

\* the runs with ignore_case=no, the default of the parameter
CaseSensitiveParams == {p \in Params : p.ignore_case = "no"}

NextCaseSensitive ==
    \/ FailJson(CaseSensitiveParams)
    \/ ReadRegistry(CaseSensitiveParams)
    \/ ChkHkey
    \/ ChkHkeyK
    \/ ChkHkeyKv
    \/ GetHkeyK
    \/ GetUnresolved
    \/ AddHkey
    \/ AddHkeyK
    \/ AddHkeyKv
    \/ DelHkey
    \/ DelHkeyK
    \/ DelHkeyKv
    \/ UpdHkey
    \/ UpdKey
    \/ UpdVal
    \/ UpdUnresolved

SpecCaseSensitive == Init /\ [][NextCaseSensitive]_vars

----------------------------------------------------------------------------
(* main with a write that fails.  write_registry opens fou with mode w,    *)
(* which empties the file, and writes the text piece by piece; it catches  *)
(* FileNotFoundError only.  The open can raise another OSError (the path   *)
(* is a directory, the file system went read-only), and so can a write or  *)
(* the flush at the close (the disk is full), after any part of the text   *)
(* reached the file.                                                       *)

\* the function main resolves an add, del or upd request to and what the
\* call returns: fnc, params and reg, res = eval(fnc)(*params)
MutatingCall ==
    LET p == params
    IN  CASE p.verb \in {"add", "del"} /\ p.key = Empty /\ p.val = Empty ->
               IF p.verb = "add"
               THEN [f |-> "add_hkey", r |-> add_hkey(reg, p.hkey)]
               ELSE [f |-> "del_hkey", r |-> del_hkey(reg, p.hkey)]
          [] p.verb \in {"add", "del"} /\ p.key # Empty /\ p.val \in {Empty, Star} ->
               IF p.verb = "add"
               THEN [f |-> "add_hkey_k", r |-> Raise(reg, "NameError")]
               ELSE [f |-> "del_hkey_k", r |-> del_hkey_k(reg, p.hkey, p.key)]
          [] p.verb \in {"add", "del"}
               /\ ~(p.key = Empty /\ p.val = Empty)
               /\ ~(p.key # Empty /\ p.val \in {Empty, Star}) ->
               IF p.verb = "add"
               THEN [f |-> "add_hkey_kv",
                     r |-> add_hkey_kv(reg, p.hkey, p.key, p.val)]
               ELSE [f |-> "del_hkey_kv",
                     r |-> del_hkey_kv(reg, p.hkey, p.key, p.val)]
          [] p.verb = "upd" /\ p.new_hkey # Empty ->
               [f |-> "upd_hkey", r |-> upd_hkey(reg, p.hkey, p.new_hkey)]
          [] p.verb = "upd" /\ p.new_hkey = Empty /\ p.new_key # Empty ->
               [f |-> "upd_key", r |-> upd_key(reg, p.hkey, p.key, p.new_key)]
          [] p.verb = "upd" /\ p.new_hkey = Empty /\ p.new_key = Empty
               /\ (p.new_val # Empty \/ p.val # Empty) ->
               [f |-> "upd_val",
                r |-> upd_val(reg, p.hkey, p.key,
                              IF p.new_val # Empty THEN p.new_val ELSE p.val)]
          [] OTHER -> [f |-> "read_registry", r |-> Raise(reg, "ValueError")]

\* the add/del/upd branch of main for a call that returned a result code of
\* res_modind, with a write_registry that raises: at the open, fou being
\* left as it was, or after the open emptied fou and the first k characters
\* of the text reached it
WriteRegistryFails ==
    /\ pc = "read" /\ params.verb \in {"add", "del", "upd"}
    /\ \E c \in {MutatingCall} :
         /\ c.r.exc = "none" /\ c.r.res \in res_modind
         /\ fnc' = c.f
         /\ reg' = c.r.registry
         /\ res' = c.r.res
         /\ result' = [changed |-> TRUE, msgcode |-> c.r.res, value |-> <<>>]
         /\ \E text \in {write_registry(preamble, c.r.registry)} :
              \/ UNCHANGED <<disk, wrote>>
              \/ \E k \in 0..(Len(text) - 1) :
                   /\ disk' = [disk EXCEPT ![fou(params)] = SubSeq(text, 1, k)]
                   /\ wrote' = wrote \cup {fou(params)}
    /\ exc' = "OSError"
    /\ pc' = "crash"
    /\ UNCHANGED <<disk0, IGNORE_CASE, params, parsed, reg_ci, preamble>>

NextWriteFails ==
    \/ FailJson(CaseSensitiveParams)
    \/ ReadRegistry(CaseSensitiveParams)
    \/ ChkHkey
    \/ ChkHkeyK
    \/ ChkHkeyKv
    \/ GetHkeyK
    \/ GetUnresolved
    \/ AddHkey
    \/ AddHkeyK
    \/ AddHkeyKv
    \/ DelHkey
    \/ DelHkeyK
    \/ DelHkeyKv
    \/ UpdHkey
    \/ UpdKey
    \/ UpdVal
    \/ UpdUnresolved
    \/ WriteRegistryFails

SpecWriteFails == Init /\ [][NextWriteFails]_vars

----------------------------------------------------------------------------
(* main for the add, del and upd requests on registries of up to three     *)
(* HKEYs and up to three keys under [X], with ignore_case=no and the input *)
(* file as the destination.                                                *)

HZ == <<"[", "Z", "]">>
LineLU == <<DQ, "L", DQ, "=", DQ, "U", DQ>>

\* the longest registry file of these runs, in lines after its first line
MaxOrderLines == 3
OrderLines == {HX, HY, HZ, LineKV, LineJW, LineLU}
\* the files start with the HKEY line [X]
OrderFiles == {Text(<<HX>> \o f) : f \in SeqsUpTo(OrderLines, MaxOrderLines)}

OrderParams ==
    {p \in Params : /\ p.verb \in {"add", "del", "upd"}
                    /\ p.ignore_case = "no"
                    /\ p.registry_filename_out = ""}

OrderInit ==
    /\ disk \in [fin : OrderFiles \cup {Missing}, fout : {Missing}]
    /\ disk0 = disk
    /\ ModuleInit

NextOrder ==
    \/ FailJson(OrderParams)
    \/ ReadRegistry(OrderParams)
    \/ AddHkey
    \/ AddHkeyK
    \/ AddHkeyKv
    \/ DelHkey
    \/ DelHkeyK
    \/ DelHkeyKv
    \/ UpdHkey
    \/ UpdKey
    \/ UpdVal
    \/ UpdUnresolved

SpecOrder == OrderInit /\ [][NextOrder]_vars

----------------------------------------------------------------------------
(* The codec on its own: read_registry applied to a file, then             *)
(* write_registry applied to what it returned, with no operation between.  *)

LineJd == <<DQ, "J", DQ, "=", "d">>
LinePath == <<DQ, "P", DQ, "=", DQ, "a", BS, "b", DQ>>
LineCont1 == <<DQ, "H", DQ, "=", "h", ",", BS>>
LineCont2 == <<" ", "2", ",", BS>>
LineCont3 == <<" ", "3">>
LineDefault == <<"@", "=", DQ, "D", DQ>>
LineNoKey == <<DQ, DQ, "=", "x">>
Banner == <<"R", "4">>

\* the longest file given to the codec, in lines
MaxCodecLines == 4
CodecLines ==
    {Banner, Empty, HX, LineKV, LineJd, LinePath, LineCont1, LineCont2,
     LineCont3, LineDefault, LineNoKey}
CodecFiles == {Text(f) : f \in SeqsUpTo(CodecLines, MaxCodecLines)}

CodecInit ==
    /\ disk \in [fin : CodecFiles \cup {Missing}, fout : {Missing}]
    /\ disk0 = disk
    /\ ModuleInit

\* reg, reg_ci, preamble, res = read_registry(fin)
CodecRead ==
    /\ pc = "start"
    /\ fnc' = "read_registry"
    /\ \E rd \in {read_registry(disk["fin"])} :
         /\ parsed' = rd.registry
         /\ reg' = rd.registry
         /\ reg_ci' = rd.registry_ci
         /\ preamble' = rd.preamble
         /\ res' = rd.res
         /\ exc' = rd.exc
         /\ pc' = IF rd.exc = "none" THEN "read" ELSE "crash"
    /\ UNCHANGED <<disk, disk0, IGNORE_CASE, params, result, wrote>>

\* write_registry(fou, preamble, reg) for what the read returned
CodecWrite ==
    /\ pc = "read"
    /\ res = "read_registry_success"
    /\ fnc' = "write_registry"
    /\ disk' = [disk EXCEPT !["fout"] = write_registry(preamble, reg)]
    /\ wrote' = wrote \cup {"fout"}
    /\ res' = "write_registry_success"
    /\ pc' = "written"
    /\ UNCHANGED <<disk0, IGNORE_CASE, params, parsed, reg, reg_ci, preamble, result,
                   exc>>

CodecNext == CodecRead \/ CodecWrite

SpecCodec == CodecInit /\ [][CodecNext]_vars

----------------------------------------------------------------------------
(* Vocabulary of the properties                                            *)

\* the function f was called by main and returned or raised
Ran(f) == fnc = f /\ pc \in {"exit", "crash"}
\* the function f was called by main and returned
Returned(f) == fnc = f /\ pc = "exit"

\* what the parsed registry stores, by exact name
StoresHkey(h) == DictHas(parsed, h)
StoresKey(h, k) == DictHas(parsed, h) /\ DictHas(DictGet(parsed, h), k)
StoredVal(h, k) == DictGet(DictGet(parsed, h), k)

\* nothing was written: no path was opened for writing and both paths
\* hold what they held when the run started
NothingWritten == wrote = {} /\ disk = disk0

\* the HKEY lines of a text, as read_registry recognises them
HkeyLines(text) ==
    SelectSeq([i \in 1..Len(readlines(text)) |-> rstrip(readlines(text)[i])],
              LAMBDA l : startswith(l, <<"[">>) /\ endswith(l, <<"]">>))
NoDuplicateHkeys(text) ==
    \A i, j \in 1..Len(HkeyLines(text)) :
        i # j => HkeyLines(text)[i] # HkeyLines(text)[j]

----------------------------------------------------------------------------
(* C1 (SpecCodec).  Round trip: for every input file without duplicate     *)
(* HKEY lines, read_registry followed by write_registry with the returned  *)
(* preamble and registry writes a text identical to the input.             *)
(* The read loses, among others, the line breaks of a preamble of several  *)
(* lines and the tail of a quoted value that holds a backslash.            *)
C1_RoundTrip ==
    (pc = "written" /\ NoDuplicateHkeys(disk["fin"])) => disk["fout"] = disk["fin"]

\* C1, a case where the round trip holds: a file in the layout
\* write_registry produces (a one-line preamble, a blank line, a block that
\* ends with a blank line)
C1_CanonicalFile == Text(<<Banner, Empty, HX, Empty>>)
C1_RoundTripCanonical ==
    (pc = "written" /\ disk["fin"] = C1_CanonicalFile) => disk["fout"] = disk["fin"]

----------------------------------------------------------------------------
(* C2.  del_hkey_kv on any registry and any (hkey, key, val): Removed and  *)
(* the key removed only if the stored value equals val; ValueMismatch and  *)
(* the key kept if it differs; KeyNotFound if the key is absent,           *)
(* HkeyNotFound if the HKEY is absent; in the three other cases the        *)
(* registry is unchanged, changed is false and no file is written.         *)
C2_DelKvOutcomes(h, k, v) ==
    /\ pc = "exit"
    /\ (res = "hkey_kv_removed") = (StoresKey(h, k) /\ StoredVal(h, k) = v)
    /\ res = "hkey_kv_removed" =>
           /\ reg = DictPut(parsed, h, DictDel(DictGet(parsed, h), k))
           /\ result.changed
    /\ (StoresKey(h, k) /\ StoredVal(h, k) # v) => res = "hkey_kv_value_mismatch"
    /\ (StoresHkey(h) /\ ~StoresKey(h, k)) => res = "hkey_kv_keynotfound"
    /\ ~StoresHkey(h) => res = "hkey_kv_hkeynotfound"
    /\ res # "hkey_kv_removed" =>
           reg = parsed /\ ~result.changed /\ NothingWritten

C2_DelHkeyKv ==
    Ran("del_hkey_kv") => C2_DelKvOutcomes(params.hkey, params.key, params.val)

\* C2 restricted to ignore_case=no, where it holds
C2_DelHkeyKvCaseSensitive ==
    (Ran("del_hkey_kv") /\ ~IGNORE_CASE) =>
        C2_DelKvOutcomes(params.hkey, params.key, params.val)

----------------------------------------------------------------------------
(* C3.  Scenario: the file holds the one HKEY [X] with the line            *)
(* "K"="V"; the request is del with hkey X, key K, val V.                  *)

C3_ScenarioRegistry == <<<<HX, <<<<KeyK, QV>>>>>>>>
C3_Scenario(h, v) ==
    /\ pc \in {"exit", "crash"} /\ fnc # "read_registry"
    /\ parsed = C3_ScenarioRegistry
    /\ params.verb = "del" /\ params.hkey = h /\ params.key = KeyK /\ params.val = v
C3_Removed ==
    /\ pc = "exit"
    /\ res = "hkey_kv_removed"
    /\ result.changed
    /\ read_registry(disk[fou(params)]).registry = <<<<HX, <<>>>>>>

\* C3 as stated: hkey X (written bare or with its brackets) and val V
\* without quotes yield Removed, changed=true and a file with [X] and no key
C3_ScenarioAsStated ==
    \A h \in {BareX, HX} : C3_Scenario(h, BareV) => C3_Removed

\* C3 amended: with the names as the registry stores them, hkey [X] with
\* its brackets and val "V" with its quotes, the request yields Removed,
\* changed=true and a file with [X] and no key
C3_ScenarioStoredForm == C3_Scenario(HX, QV) => C3_Removed

C3_Witness == C3_Scenario(HX, QV) /\ res = "hkey_kv_removed"

----------------------------------------------------------------------------
(* C4.  add_hkey_kv is idempotent and never overwrites: where the key is   *)
(* absent the call returns Added (creating the HKEY if absent) and a       *)
(* second call with the same inputs returns AlreadyExists and leaves the   *)
(* registry as it is; where the key exists the stored value is untouched,  *)
(* even if the requested val differs.                                      *)
C4_AddKvOutcomes(h, k, v) ==
    /\ pc = "exit"
    /\ StoresKey(h, k) => res = "hkey_kv_already_exists" /\ reg = parsed
    /\ ~StoresKey(h, k) =>
           /\ res = "hkey_kv_added"
           /\ reg = DictPut2(IF StoresHkey(h) THEN parsed
                             ELSE DictPut(parsed, h, <<>>), h, k, v)
           /\ add_hkey_kv(reg, h, k, v) = Ret(reg, "hkey_kv_already_exists")

C4_AddHkeyKv ==
    Ran("add_hkey_kv") => C4_AddKvOutcomes(params.hkey, params.key, params.val)

\* C4 restricted to ignore_case=no, where it holds
C4_AddHkeyKvCaseSensitive ==
    (Ran("add_hkey_kv") /\ ~IGNORE_CASE) =>
        C4_AddKvOutcomes(params.hkey, params.key, params.val)

----------------------------------------------------------------------------
(* C5.  upd_val on any registry and any (hkey, key, newVal): Updated and   *)
(* newVal stored if the key exists with a different value; NotUpdated and  *)
(* no mutation if the stored value is newVal; KeySet and the key created   *)
(* with newVal if the key did not exist under an existing HKEY; if the     *)
(* HKEY is absent the registry is unchanged and nothing is created.        *)
C5_SetValOutcomes(h, k, v) ==
    /\ (StoresKey(h, k) /\ StoredVal(h, k) # v) =>
           pc = "exit" /\ res = "val_updated" /\ reg = DictPut2(parsed, h, k, v)
    /\ (StoresKey(h, k) /\ StoredVal(h, k) = v) =>
           pc = "exit" /\ res = "val_notupdated" /\ reg = parsed
    /\ (StoresHkey(h) /\ ~StoresKey(h, k)) =>
           pc = "exit" /\ res = "val_key_set" /\ reg = DictPut2(parsed, h, k, v)
    /\ ~StoresHkey(h) => reg = parsed /\ NothingWritten

\* the value main hands to upd_val: new_val, or val when new_val is empty
C5_NewVal == IF params.new_val # Empty THEN params.new_val ELSE params.val

C5_UpdVal == Ran("upd_val") => C5_SetValOutcomes(params.hkey, params.key, C5_NewVal)

\* C5 restricted to ignore_case=no, where it holds
C5_UpdValCaseSensitive ==
    (Ran("upd_val") /\ ~IGNORE_CASE) =>
        C5_SetValOutcomes(params.hkey, params.key, C5_NewVal)

----------------------------------------------------------------------------
(* C6.  upd_key returns exactly one outcome for every registry and every   *)
(* (hkey, old, new): Updated when old exists under hkey and old differs    *)
(* from new, NotUpdated when old equals new, NotFound when the old key is  *)
(* absent from an existing HKEY or the HKEY is absent; it never ends       *)
(* without an outcome.                                                     *)
C6_RenameKeyOutcomes(h, old, new) ==
    /\ pc = "exit"
    /\ (StoresKey(h, old) /\ old # new) => res = "key_updated"
    /\ (StoresKey(h, old) /\ old = new) => res = "key_notupdated"
    /\ ~StoresKey(h, old) => res = "key_notfound"

C6_UpdKey ==
    Ran("upd_key") => C6_RenameKeyOutcomes(params.hkey, params.key, params.new_key)

\* C6 with the case of an old key absent from an existing HKEY left out,
\* for ignore_case=no: the other cases hold
C6_UpdKeyOtherCases ==
    (Ran("upd_key") /\ ~IGNORE_CASE
        /\ ~(StoresHkey(params.hkey) /\ ~StoresKey(params.hkey, params.key))) =>
        C6_RenameKeyOutcomes(params.hkey, params.key, params.new_key)

----------------------------------------------------------------------------
(* C7.  upd_hkey: Updated when old exists and differs from new, the KeySet *)
(* of old then stored under new and old no longer present; NotUpdated and  *)
(* no mutation when old equals new; NotFound and no mutation when old is   *)
(* absent, and then the request reports changed=false and writes no file.  *)
C7_RenameHkeyOutcomes(old, new) ==
    /\ pc = "exit"
    /\ (StoresHkey(old) /\ old # new) =>
           /\ res = "hkey_updated"
           /\ DictHas(reg, new) /\ DictGet(reg, new) = DictGet(parsed, old)
           /\ ~DictHas(reg, old)
    /\ (StoresHkey(old) /\ old = new) => res = "hkey_notupdated" /\ reg = parsed
    /\ ~StoresHkey(old) =>
           /\ res = "hkey_notfound" /\ reg = parsed
           /\ ~result.changed /\ NothingWritten

C7_UpdHkey == Ran("upd_hkey") => C7_RenameHkeyOutcomes(params.hkey, params.new_hkey)

\* C7 restricted to ignore_case=no, where it holds
C7_UpdHkeyCaseSensitive ==
    (Ran("upd_hkey") /\ ~IGNORE_CASE) =>
        C7_RenameHkeyOutcomes(params.hkey, params.new_hkey)

----------------------------------------------------------------------------
(* C8 (SpecCaseSensitive).  Verb resolution for add and del: with key and  *)
(* val empty the HKEY operation is invoked; with a key and val empty or *  *)
(* the value-agnostic key operation; with a key and a val the              *)
(* value-checked key+value operation.  For each of the six combinations    *)
(* the selected operation exists and the request ends with a result code   *)
(* of that operation.                                                      *)

\* main went past the read and resolved the request
Dispatched == pc \in {"exit", "crash"} /\ res # ""

C8_Selected(verb, key, val) ==
    IF key = Empty /\ val = Empty THEN verb \o "_hkey"
    ELSE IF val \in {Empty, Star} THEN verb \o "_hkey_k"
    ELSE verb \o "_hkey_kv"

C8_VerbResolution ==
    (/\ Dispatched
     /\ params.verb \in {"add", "del"}
     /\ (params.key = Empty => params.val = Empty)) =>
        /\ fnc = C8_Selected(params.verb, params.key, params.val)
        /\ pc = "exit"
        /\ res \in func_rescode(fnc)

\* C8 for the verb del, where it holds under ignore_case=no
C8_VerbResolutionDel ==
    (/\ Dispatched
     /\ params.verb = "del"
     /\ (params.key = Empty => params.val = Empty)) =>
        /\ fnc = C8_Selected(params.verb, params.key, params.val)
        /\ pc = "exit"
        /\ res \in func_rescode(fnc)

----------------------------------------------------------------------------
(* C9.  Case-insensitive HKEY lookup: when the parsed file stores an HKEY  *)
(* H, chk_hkey with a needle that equals H after lower-casing returns      *)
(* hkey_exists_ic under ignore_case=yes; under ignore_case=no a needle     *)
(* that is no stored HKEY as written returns hkey_notexists; the lookup    *)
(* leaves the registry, with the casing it stores, as it was parsed.       *)
C9_ChkHkey ==
    Ran("chk_hkey") =>
        /\ pc = "exit"
        /\ (IGNORE_CASE /\ \E i \in 1..Len(parsed) :
                               lower(parsed[i][1]) = lower(params.hkey)) =>
               res = "hkey_exists_ic"
        /\ (~IGNORE_CASE /\ ~StoresHkey(params.hkey)) => res = "hkey_notexists"
        /\ reg = parsed
        /\ NothingWritten

\* C9: the file stores [X], the needle is [x], ignore_case=yes
C9_Witness ==
    /\ Returned("chk_hkey") /\ IGNORE_CASE
    /\ params.hkey = Hx /\ StoresHkey(HX) /\ ~StoresHkey(Hx)
    /\ res = "hkey_exists_ic"

\* C9: the same lookup under ignore_case=no
C9_WitnessCaseSensitive ==
    /\ Returned("chk_hkey") /\ ~IGNORE_CASE
    /\ params.hkey = Hx /\ StoresHkey(HX) /\ ~StoresHkey(Hx)
    /\ res = "hkey_notexists"

----------------------------------------------------------------------------
(* C10 (SpecCaseSensitive).  Change detection: the destination file is     *)
(* written if and only if the operation reported Added, Removed, Updated   *)
(* or KeySet, and the response has changed=true exactly then; for chk and  *)
(* get requests and for every logical non-mutation (already-exists,        *)
(* not-found, value-mismatch, no-op rename) the response is a successful   *)
(* one with changed=false, the registry in memory equals the parsed one    *)
(* and neither path is written.                                            *)

C10_ChangedCodes ==
    {"hkey_added", "hkey_kv_added", "hkey_removed", "hkey_k_removed",
     "hkey_kv_removed", "hkey_updated", "key_updated", "val_updated", "val_key_set"}

\* the destination is written exactly when a changed outcome was reported,
\* and changed=true is reported exactly then
C10_WrittenIffChanged ==
    /\ (wrote # {}) = (res \in C10_ChangedCodes)
    /\ wrote \subseteq {fou(params)}
    /\ wrote = {} => NothingWritten
    /\ pc = "exit" => result.changed = (res \in C10_ChangedCodes)

\* a chk request, or a get request with the key it needs
C10_Query ==
    params.verb = "chk" \/ (params.verb = "get" /\ params.key # Empty)

\* the request asks for what the parsed registry already has, for the
\* removal or change of what it does not have, or for a rename to the same
\* name
C10_NonMutation ==
    LET h == params.hkey
        k == params.key
        v == params.val
    IN  \/ /\ params.verb = "add"
           /\ IF k = Empty /\ v = Empty THEN StoresHkey(h) ELSE StoresKey(h, k)
        \/ /\ params.verb = "del"
           /\ IF k = Empty /\ v = Empty THEN ~StoresHkey(h)
              ELSE IF v \in {Empty, Star} THEN ~StoresKey(h, k)
              ELSE ~StoresKey(h, k) \/ StoredVal(h, k) # v
        \/ /\ params.verb = "upd" /\ params.new_hkey # Empty
           /\ ~StoresHkey(h) \/ h = params.new_hkey
        \/ /\ params.verb = "upd" /\ params.new_hkey = Empty /\ params.new_key # Empty
           /\ ~StoresKey(h, k) \/ k = params.new_key
        \/ /\ params.verb = "upd" /\ params.new_hkey = Empty /\ params.new_key = Empty
           /\ params.new_val # Empty \/ v # Empty
           /\ ~StoresHkey(h) \/ (StoresKey(h, k) /\ StoredVal(h, k) = C5_NewVal)

C10_ChangeDetection ==
    Dispatched =>
        /\ C10_WrittenIffChanged
        /\ (C10_Query \/ C10_NonMutation) =>
               /\ pc = "exit"
               /\ ~result.changed
               /\ reg = parsed
               /\ NothingWritten

\* C10, the part that holds in every run: a file is written exactly when a
\* changed outcome was reported, and only the destination
C10_WrittenIffChangedAlways == pc # "start" => C10_WrittenIffChanged

----------------------------------------------------------------------------
(* C11 (SpecWriteFails).  Output-error safety: whenever write_registry     *)
(* fails, at the open or part-way through the text, the destination still  *)
(* holds its complete prior contents (it is never left truncated or        *)
(* partially written), and the failure is reported as a fatal error, not   *)
(* as a changed or successful response.                                    *)
(* write_registry empties the destination when it opens it: a write that   *)
(* fails after the open leaves the part of the text that was written.      *)

\* write_registry raised
C11_WriteFailed == exc = "OSError"

C11_OutputErrorSafety ==
    C11_WriteFailed =>
        /\ disk[fou(params)] = disk0[fou(params)]
        /\ pc # "exit"

\* C11, the part that holds: a write that failed ends the run without a
\* response, and a path other than the destination is as it was
C11_FailureNotReported ==
    C11_WriteFailed =>
        /\ pc = "crash"
        /\ \A path \in {"fin", "fout"} :
               path # fou(params) => disk[path] = disk0[path]

----------------------------------------------------------------------------
(* C12 (SpecCodec).  Permissive parsing: for every existing file, whatever *)
(* lines it holds (key or default-value lines before any HKEY line, lines  *)
(* with an empty key name, stray text), read_registry returns the success  *)
(* status with a registry; the only failure of parsing is FileNotFound for *)
(* a missing path, and lines that match no pattern are dropped.            *)
(* A key or default-value line before the first HKEY line uses hkey before *)
(* it is assigned, and a line with an empty key name calls lower on None:  *)
(* read_registry raises on both.                                           *)
C12_PermissiveParsing ==
    (pc # "start" /\ disk0["fin"] # Missing) =>
        /\ pc # "crash"
        /\ exc = "none"
        /\ (fnc = "read_registry" => res = "read_registry_success")

\* C12, the parts that hold: a missing path yields FileNotFound, and stray
\* text after an HKEY line is dropped
C12_MissingPath ==
    (pc # "start" /\ disk0["fin"] = Missing) =>
        pc = "read" /\ res = "read_registry_filenotfound" /\ parsed = <<>>

C12_StrayTextDropped ==
    (pc # "start" /\ disk0["fin"] = Text(<<HX, Banner, LineKV>>)) =>
        /\ pc # "crash"
        /\ parsed = <<<<HX, <<<<KeyK, QV>>>>>>>>

----------------------------------------------------------------------------
(* C13 (SpecCodec).  Value classification: a key line starts a continued   *)
(* value only if it ends with a backslash; a line "KEY"="VALUE" that does  *)
(* not end with a backslash is quoted even when VALUE holds backslashes:   *)
(* its value is stored as the complete quoted string with its quotes, and  *)
(* no following line is absorbed into it.                                  *)
(* pkv_m asks for a backslash anywhere after the equals sign, not at the   *)
(* end of the line, and is tried first.                                    *)

\* the value of the line LinePath as the claim wants it stored
C13_QuotedPath == <<DQ, "a", BS, "b", DQ>>

\* the values the parsed registry stores for the key k, under any HKEY
C13_ValuesOf(k) ==
    {parsed[i][2][j][2] : <<i, j>> \in
        {x \in (1..Len(parsed)) \X (1..MaxCodecLines) :
            x[2] <= Len(parsed[x[1]][2]) /\ parsed[x[1]][2][x[2]][1] = k}}

C13_HasNewline(v) == \E n \in 1..Len(v) : v[n] = NL

\* the lines of K, J and P do not end with a backslash: their values hold
\* no line break, and that of P is the complete quoted string
C13_ValueClassification ==
    (pc = "read" /\ res = "read_registry_success") =>
        /\ \A k \in {KeyK, KeyJ, <<"P">>} :
               \A v \in C13_ValuesOf(k) : ~C13_HasNewline(v)
        /\ \A v \in C13_ValuesOf(<<"P">>) : v = C13_QuotedPath

\* C13, the parts that hold: a quoted or bare value without a backslash is
\* stored whole, and a line that ends with a backslash starts a continued
\* value
C13_WithoutBackslash ==
    (pc = "read" /\ res = "read_registry_success") =>
        /\ \A v \in C13_ValuesOf(KeyK) : v = QV
        /\ \A v \in C13_ValuesOf(KeyJ) : v = <<"d">>
        /\ \A v \in C13_ValuesOf(<<"H">>) :
               Len(v) >= 3 /\ SubSeq(v, 1, 3) = <<"h", ",", BS>>
               /\ (Len(v) > 3 => v[4] = NL)

----------------------------------------------------------------------------
(* C14 (SpecOrder).  Ordering: after an add, delete or set-value operation *)
(* the relative order of the pre-existing HKEYs and of the pre-existing    *)
(* keys of each KeySet is unchanged and new HKEYs and keys are at the end; *)
(* after a rename (of an HKEY or a key) with outcome Updated the renamed   *)
(* entry is the last of its ordered mapping and the relative order of the  *)
(* other entries is unchanged.                                             *)

\* the names of an ordered mapping, in its order
C14_Names(d) == [i \in 1..Len(d) |-> d[i][1]]
C14_In(n, d) == \E i \in 1..Len(d) : d[i][1] = n

\* the names of a that b has as well, in the order of a
C14_Common(a, b) == SelectSeq(C14_Names(a), LAMBDA n : C14_In(n, b))

\* from before to after, the entries that stay keep their relative order
\* and the new ones come after all of them
C14_OrderKept(before, after) ==
    /\ C14_Common(before, after) = C14_Common(after, before)
    /\ \A i, j \in 1..Len(after) :
           (i < j /\ ~C14_In(after[i][1], before)) => ~C14_In(after[j][1], before)

\* the same for the HKEYs and for the keys of every HKEY that stays
C14_RegistryOrderKept ==
    /\ C14_OrderKept(parsed, reg)
    /\ \A i \in 1..Len(parsed) :
           C14_In(parsed[i][1], reg) =>
               C14_OrderKept(parsed[i][2], DictGet(reg, parsed[i][1]))

\* the entry renamed from old to new is the last one of after, and the
\* other entries are in the order they had
C14_RenamedLast(before, after, old, new) ==
    /\ Len(after) > 0 /\ after[Len(after)][1] = new
    /\ SelectSeq(C14_Names(after), LAMBDA n : n # new)
           = SelectSeq(C14_Names(before), LAMBDA n : n # old)

C14_AddDelSet ==
    (pc = "exit" /\ fnc \in {"add_hkey", "add_hkey_kv", "del_hkey", "del_hkey_k",
                             "del_hkey_kv", "upd_val"}) =>
        C14_RegistryOrderKept

C14_RenameHkey ==
    (Returned("upd_hkey") /\ res = "hkey_updated") =>
        C14_RenamedLast(parsed, reg, params.hkey, params.new_hkey)

C14_RenameKey ==
    (Returned("upd_key") /\ res = "key_updated") =>
        C14_RenamedLast(DictGet(parsed, params.hkey), DictGet(reg, params.hkey),
                        params.key, params.new_key)

C14_Ordering == C14_AddDelSet /\ C14_RenameHkey /\ C14_RenameKey

\* C14 with the renames to a name that is already there left out: the
\* operations other than rename, and a rename to a name that is free
C14_OrderingNewNameFree ==
    /\ C14_AddDelSet
    /\ ~StoresHkey(params.new_hkey) => C14_RenameHkey
    /\ ~StoresKey(params.hkey, params.new_key) => C14_RenameKey

----------------------------------------------------------------------------
(* C15 (SpecOrder).  Rename does not destroy other entries: a rename of an *)
(* HKEY (old, new) or of a key (hkey, old, new) that returns Updated       *)
(* leaves the number of HKEYs (of keys under hkey) as it was and every     *)
(* entry other than the renamed one with its name and value, also when new *)
(* names an entry that exists.                                             *)
(* Neither rename tests for the new name: an entry that has it is          *)
(* replaced.                                                               *)

\* from before to after there are as many entries, and each one not named
\* old is there with the value it had
C15_OthersIntact(before, after, old) ==
    /\ Len(after) = Len(before)
    /\ \A i \in 1..Len(before) :
           before[i][1] # old =>
               DictHas(after, before[i][1]) /\ DictGet(after, before[i][1]) = before[i][2]

C15_RenameHkey ==
    (Returned("upd_hkey") /\ res = "hkey_updated") =>
        C15_OthersIntact(parsed, reg, params.hkey)

C15_RenameKey ==
    (Returned("upd_key") /\ res = "key_updated") =>
        /\ C15_OthersIntact(DictGet(parsed, params.hkey), DictGet(reg, params.hkey),
                            params.key)
        /\ C15_OthersIntact(parsed, reg, params.hkey)

C15_RenameKeepsOthers == C15_RenameHkey /\ C15_RenameKey

\* C15 for a rename to a name that is free, where it holds
C15_RenameKeepsOthersNewNameFree ==
    /\ ~StoresHkey(params.new_hkey) => C15_RenameHkey
    /\ ~StoresKey(params.hkey, params.new_key) => C15_RenameKey

----------------------------------------------------------------------------
(* C16.  Under ignore_case=yes every mutating operation (add_hkey_kv,      *)
(* del_hkey, del_hkey_k, del_hkey_kv, upd_hkey, upd_key, upd_val) called   *)
(* with an hkey or key that differs from the stored entry only in letter   *)
(* case returns exactly one outcome of its result taxonomy; it never       *)
(* aborts with an unhandled lookup failure, and the stored casing of every *)
(* entry it does not modify is preserved.                                  *)
(* _in compares lower-cased names under ignore_case=yes while the entries  *)
(* are looked up by the name as given: the look-up raises KeyError.        *)

C16_Mutating ==
    {"add_hkey_kv", "del_hkey", "del_hkey_k", "del_hkey_kv", "upd_hkey", "upd_key",
     "upd_val"}

\* the mapping d has no entry named n and has one whose name differs from n
\* in letter case only
C16_CaseOnly(n, d) ==
    ~DictHas(d, n) /\ \E i \in 1..Len(d) : lower(d[i][1]) = lower(n)

\* the request names an HKEY, or a key under it, in another letter case
\* than the parsed registry stores it
C16_CaseDiffers ==
    \/ C16_CaseOnly(params.hkey, parsed)
    \/ /\ fnc \notin {"del_hkey", "upd_hkey"}
       /\ \E i \in 1..Len(parsed) :
              /\ lower(parsed[i][1]) = lower(params.hkey)
              /\ C16_CaseOnly(params.key, parsed[i][2])

\* every name of the registry in memory is spelled as the parsed registry
\* or the request spells it
C16_CasingPreserved ==
    \A i \in 1..Len(reg) :
        /\ DictHas(parsed, reg[i][1]) \/ reg[i][1] \in {params.hkey, params.new_hkey}
        /\ \A j \in 1..Len(reg[i][2]) :
               \/ reg[i][2][j][1] \in {params.key, params.new_key}
               \/ \E h \in 1..Len(parsed) : DictHas(parsed[h][2], reg[i][2][j][1])

C16_IgnoreCaseMutation ==
    (/\ IGNORE_CASE
     /\ \E f \in C16_Mutating : Ran(f)
     /\ C16_CaseDiffers) =>
        /\ pc = "exit"
        /\ res \in func_rescode(fnc)
        /\ C16_CasingPreserved

\* C16, the part that holds: no operation changes the letter case of a
\* stored name, whether it returns or raises
C16_CasingPreservedAlways ==
    (\E f \in C16_Mutating : Ran(f)) => C16_CasingPreserved

=============================================================================
